---- MODULE Spec2Model ----
(***************************************************************************)
(* Model of the bord audio engine (crates/bord-engine).                    *)
(*                                                                         *)
(*  - SpscRingF32: the lock-free single-producer/single-consumer ring,     *)
(*    stepped at the granularity of cursor loads, per-sample buffer        *)
(*    accesses and cursor stores.                                          *)
(*  - the capture callback (producer) and the render callback (consumer)   *)
(*    that Engine::start installs on the two streams.                      *)
(*  - Engine::start / Engine::stop and pick_device.                        *)
(*  - Chain and Gain on their own, with f32 overflow and NaN.              *)
(*  - SpscRingF32::with_capacity for every requested capacity.             *)
(*                                                                         *)
(* Samples are f32 values in the source; here a sample is an integer k     *)
(* standing for the real number k / Unit.                                  *)
(***************************************************************************)
EXTENDS Integers, Sequences, FiniteSets, TLC

(* ------------------------------ bounds -------------------------------- *)

\* capacity requested from SpscRingF32::with_capacity
CapRequest == 3
\* width of a cursor (usize) in bits, scaled down
WordBits == 3
\* longest block a callback is handed
MaxBlock == 2
\* a sample k stands for k / Unit
Unit == 2

(* ----------------------------- arithmetic ----------------------------- *)

RECURSIVE Pow2(_)
Pow2(n) == IF n = 0 THEN 1 ELSE 2 * Pow2(n - 1)

WordMod == Pow2(WordBits)

RECURSIVE BitOr(_, _)
BitOr(a, b) ==
    IF a = 0 THEN b
    ELSE IF b = 0 THEN a
    ELSE (IF (a % 2 = 1) \/ (b % 2 = 1) THEN 1 ELSE 0) + 2 * BitOr(a \div 2, b \div 2)

RECURSIVE BitAnd(_, _)
BitAnd(a, b) ==
    IF a = 0 \/ b = 0 THEN 0
    ELSE (IF (a % 2 = 1) /\ (b % 2 = 1) THEN 1 ELSE 0) + 2 * BitAnd(a \div 2, b \div 2)

RECURSIVE Shr(_, _)
Shr(x, k) == IF k = 0 \/ x = 0 THEN x ELSE Shr(x \div 2, k - 1)

\* mutant: a difference that does not wrap
saturating_sub(a, b) == IF a >= b THEN a - b ELSE 0

wrapping_sub(a, b) == (a - b) % WordMod
wrapping_add(a, b) == (a + b) % WordMod

\* mutant: the bits of x are smeared, not those of x - 1
next_pow2_no_decrement(x) ==
    IF x <= 1 THEN 1
    ELSE LET x1 == BitOr(x, Shr(x, 1))
             x2 == BitOr(x1, Shr(x1, 2))
             x3 == BitOr(x2, Shr(x2, 4))
         IN  x3 + 1

\* fn next_pow2: bit smearing, then + 1
next_pow2(x) ==
    IF x <= 1 THEN 1
    ELSE LET x0 == x - 1
             x1 == BitOr(x0, Shr(x0, 1))
             x2 == BitOr(x1, Shr(x1, 2))
             x3 == BitOr(x2, Shr(x2, 4))
             x4 == BitOr(x3, Shr(x3, 8))
             x5 == BitOr(x4, Shr(x4, 16))
             x6 == BitOr(x5, Shr(x5, 32))
         IN  x6 + 1

(* ------------------------------- state -------------------------------- *)

VARIABLES
    \* SpscRingF32
    buf, mask, write, read,
    \* capture callback / push_slice (producer thread)
    ppc, scratch, p_r, p_w, p_wi, p_i, p_ok,
    \* render callback / pop_into (consumer thread)
    cpc, out_fmt, out, tmp, c_w, c_r, c_ri, c_i, c_ok,
    \* history: samples pushed and not yet popped, what the running pop was
    \* owed, and how many samples the ring held when the pop looked
    fifo, c_expect, c_held,
    \* Engine: its configuration and the two streams it holds
    cfg, self_input_stream, self_output_stream,
    \* the streams the audio host has built, and the number of start calls
    streams, starts,
    \* the thread calling Engine::start / Engine::stop: position and locals
    epc, in_dev, out_dev, input_stream, output_stream, ring_id,
    \* history: the host the running call saw, the engine as the call found it
    e_host, e_pre,
    \* the capacity asked of SpscRingF32::with_capacity
    req,
    \* a Chain on its own: the chain, the block it is handed, the calls it made
    chain, dsp_block, calls

ringVars == <<buf, mask, write, read>>
prodVars == <<ppc, scratch, p_r, p_w, p_wi, p_i, p_ok>>
consVars == <<cpc, out_fmt, out, tmp, c_w, c_r, c_ri, c_i, c_ok>>
histVars == <<fifo, c_expect, c_held>>
engVars == <<cfg, self_input_stream, self_output_stream, streams, starts,
             epc, in_dev, out_dev, input_stream, output_stream, ring_id,
             e_host, e_pre>>
capVars == <<req>>
dspVars == <<chain, dsp_block, calls>>
vars == <<ringVars, prodVars, consVars, histVars, engVars, capVars, dspVars>>

(* ------------------------- SpscRingF32 helpers ------------------------ *)

\* with_capacity: the backing size and the mask
cap_pow2 == next_pow2(CapRequest)

\* buf.len()
BufLen == Cardinality(DOMAIN buf)

\* fn len(&self, w, r) = w.wrapping_sub(r) & self.mask
len(w, r) == BitAnd(wrapping_sub(w, r), mask)

\* mutant: no slot kept empty
free_space_no_reserve(w, r) == BufLen - len(w, r)

\* mutant: two slots kept empty
free_space_two_reserved(w, r) == BufLen - len(w, r) - 2

\* push_slice: let free = cap - self.len(w, r) - 1
free_space(w, r) == BufLen - len(w, r) - 1

\* mutant: availability counted one too high
avail_data_plus_one(w, r) == len(w, r) + 1

\* pop_into: let avail = self.len(w, r)
avail_data(w, r) == len(w, r)

\* buf[i & self.mask]
slot(i) == BitAnd(i, mask)

(* ----------------------- samples and conversions ---------------------- *)

Min(a, b) == IF a < b THEN a ELSE b

\* f32 -> integer cast: toward zero
TruncDiv(a, b) == IF a >= 0 THEN a \div b ELSE -((-a) \div b)

\* v.clamp(-1.0, 1.0)
clamp(v) == IF v < -Unit THEN -Unit ELSE IF v > Unit THEN Unit ELSE v

\* Gain::process on one sample, g the linear coefficient (g / Unit)
gain_process(s, g) ==
    LET x == (s * g) \div Unit
    IN  IF x > Unit THEN Unit ELSE IF x < -Unit THEN -Unit ELSE x

\* Gain::new(0.0): lin = 10^(0/20) = 1.0
GainLin == Unit

\* Chain::process with the one Gain effect Engine::start pushes
chain_process(block) == [i \in 1..Len(block) |-> gain_process(block[i], GainLin)]

\* (v.clamp(-1.0, 1.0) * 32767.0) as i16
denorm_i16(v) == TruncDiv(clamp(v) * 32767, Unit)

\* (((v.clamp(-1.0, 1.0) + 1.0) * 0.5) * 65535.0) as u16
denorm_u16(v) == TruncDiv((clamp(v) + Unit) * 65535, 2 * Unit)

OutputFormats == {"F32", "I16", "U16"}

\* f32 samples a capture device hands over (one of them beyond full scale)
InputSamples == {-(Unit + 1), 1}

\* blocks of one to MaxBlock frames, the sizes a stream callback is driven with
Blocks(S) == UNION {[1..n -> S] : n \in 1..MaxBlock}

\* an element of the device's output block: written by this invocation or not
Fresh(x) == [v |-> x, fresh |-> TRUE]
Stale == [v |-> 1, fresh |-> FALSE]

(* ------------------------------- Init --------------------------------- *)

\* fn with_capacity(cap): the fields of the ring it returns
with_capacity(cap) ==
    /\ buf = [i \in 0..(next_pow2(cap) - 1) |-> 0]
    /\ mask = next_pow2(cap) - 1
    /\ write = 0
    /\ read = 0

RingInit == with_capacity(CapRequest)

ProdInit ==
    /\ ppc = "idle"
    /\ scratch = <<>>
    /\ p_r = 0 /\ p_w = 0 /\ p_wi = 0 /\ p_i = 0
    /\ p_ok = TRUE

ConsInit ==
    /\ cpc = "idle"
    /\ out_fmt \in OutputFormats
    /\ out = <<>>
    /\ tmp = <<>>
    /\ c_w = 0 /\ c_r = 0 /\ c_ri = 0 /\ c_i = 0
    /\ c_ok = TRUE

HistInit ==
    /\ fifo = <<>>
    /\ c_expect = <<>>
    /\ c_held = 0

(* -------------------- capture callback / push_slice ------------------- *)

\* input callback entry: scratch.clear(); scratch.extend_from_slice(data);
\* chain.process(&mut scratch); then push_slice(&scratch) is entered
CaptureBegin ==
    /\ ppc = "idle"
    /\ \E data \in Blocks(InputSamples) : scratch' = chain_process(data)
    /\ ppc' = "push_load_r"
    /\ UNCHANGED <<p_r, p_w, p_wi, p_i, p_ok>>
    /\ UNCHANGED <<ringVars, consVars, histVars>>
    /\ UNCHANGED <<engVars, capVars, dspVars>>

\* mutant: the producer takes the ring to be empty
PushLoadR_sees_empty ==
    /\ ppc = "push_load_r"
    /\ p_r' = write
    /\ ppc' = "push_load_w"
    /\ UNCHANGED <<scratch, p_w, p_wi, p_i, p_ok>>
    /\ UNCHANGED <<ringVars, consVars, histVars>>
    /\ UNCHANGED <<engVars, capVars, dspVars>>

\* let r = self.read.load(Acquire)
PushLoadR ==
    /\ ppc = "push_load_r"
    /\ p_r' = read
    /\ ppc' = "push_load_w"
    /\ UNCHANGED <<scratch, p_w, p_wi, p_i, p_ok>>
    /\ UNCHANGED <<ringVars, consVars, histVars>>
    /\ UNCHANGED <<engVars, capVars, dspVars>>

\* mutant: the first sample is written before the free-space check
PushLoadW_partial_write ==
    /\ ppc = "push_load_w"
    /\ p_w' = write
    /\ IF free_space(write, p_r) < Len(scratch)
       THEN /\ p_ok' = FALSE
            /\ ppc' = "capture_ret"
            /\ buf' = IF Len(scratch) > 0
                      THEN [buf EXCEPT ![slot(write)] = scratch[1]]
                      ELSE buf
            /\ UNCHANGED <<p_wi, p_i>>
       ELSE /\ p_wi' = write
            /\ p_i' = 1
            /\ ppc' = "push_write"
            /\ UNCHANGED <<p_ok, buf>>
    /\ UNCHANGED <<scratch, p_r>>
    /\ UNCHANGED <<mask, write, read, consVars, histVars>>
    /\ UNCHANGED <<engVars, capVars, dspVars>>

\* mutant: a push that does not fit waits for the consumer and tries again
PushLoadW_retry ==
    /\ ppc = "push_load_w"
    /\ p_w' = write
    /\ IF free_space(write, p_r) < Len(scratch)
       THEN /\ ppc' = "push_load_r"
            /\ UNCHANGED <<p_ok, p_wi, p_i>>
       ELSE /\ p_wi' = write
            /\ p_i' = 1
            /\ ppc' = "push_write"
            /\ UNCHANGED p_ok
    /\ UNCHANGED <<scratch, p_r>>
    /\ UNCHANGED <<ringVars, consVars, histVars>>
    /\ UNCHANGED <<engVars, capVars, dspVars>>

\* let w = self.write.load(Relaxed); free; if free < data.len() { return false }
PushLoadW ==
    /\ ppc = "push_load_w"
    /\ p_w' = write
    /\ IF free_space(write, p_r) < Len(scratch)
       THEN /\ p_ok' = FALSE
            /\ ppc' = "capture_ret"
            /\ UNCHANGED <<p_wi, p_i>>
       ELSE /\ p_wi' = write
            /\ p_i' = 1
            /\ ppc' = "push_write"
            /\ UNCHANGED p_ok
    /\ UNCHANGED <<scratch, p_r>>
    /\ UNCHANGED <<ringVars, consVars, histVars>>
    /\ UNCHANGED <<engVars, capVars, dspVars>>

\* one iteration of: for &v in data { buf[wi & mask] = v; wi = wi.wrapping_add(1) }
PushWrite ==
    /\ ppc = "push_write"
    /\ p_i <= Len(scratch)
    /\ buf' = [buf EXCEPT ![slot(p_wi)] = scratch[p_i]]
    /\ p_wi' = wrapping_add(p_wi, 1)
    /\ p_i' = p_i + 1
    /\ UNCHANGED <<mask, write, read>>
    /\ UNCHANGED <<ppc, scratch, p_r, p_w, p_ok>>
    /\ UNCHANGED <<consVars, histVars>>
    /\ UNCHANGED <<engVars, capVars, dspVars>>

\* self.write.store(wi, Release); true
PushStore ==
    /\ ppc = "push_write"
    /\ p_i > Len(scratch)
    /\ write' = p_wi
    /\ p_ok' = TRUE
    /\ ppc' = "capture_ret"
    /\ fifo' = fifo \o scratch
    /\ UNCHANGED <<buf, mask, read>>
    /\ UNCHANGED <<scratch, p_r, p_w, p_wi, p_i>>
    /\ UNCHANGED <<consVars, c_expect, c_held>>
    /\ UNCHANGED <<engVars, capVars, dspVars>>

\* let _ = ring.push_slice(..): the callback returns, its locals die
CaptureReturn ==
    /\ ppc = "capture_ret"
    /\ ppc' = "idle"
    /\ scratch' = <<>>
    /\ p_r' = 0 /\ p_w' = 0 /\ p_wi' = 0 /\ p_i' = 0
    /\ p_ok' = TRUE
    /\ UNCHANGED <<ringVars, consVars, histVars>>
    /\ UNCHANGED <<engVars, capVars, dspVars>>

(* --------------------- render callback / pop_into --------------------- *)

\* the slice pop_into is handed: the device block itself for f32, else tmp
PopTarget == IF out_fmt = "F32" THEN [i \in 1..Len(out) |-> out[i].v] ELSE tmp

\* output callback entry with a device block of n elements holding old content;
\* i16/u16: let mut tmp = vec![0.0f32; out.len()]; then pop_into is entered
RenderBegin ==
    /\ cpc = "idle"
    /\ \E n \in 1..MaxBlock :
         /\ out' = [i \in 1..n |-> Stale]
         /\ tmp' = IF out_fmt = "F32" THEN <<>> ELSE [i \in 1..n |-> 0]
    /\ cpc' = "pop_load_w"
    /\ UNCHANGED <<out_fmt, c_w, c_r, c_ri, c_i, c_ok>>
    /\ UNCHANGED <<ringVars, prodVars, histVars>>
    /\ UNCHANGED <<engVars, capVars, dspVars>>

\* let w = self.write.load(Acquire)
PopLoadW ==
    /\ cpc = "pop_load_w"
    /\ c_w' = write
    /\ c_held' = Len(fifo)
    /\ cpc' = "pop_load_r"
    /\ UNCHANGED <<out_fmt, out, tmp, c_r, c_ri, c_i, c_ok>>
    /\ UNCHANGED <<ringVars, prodVars, fifo, c_expect>>
    /\ UNCHANGED <<engVars, capVars, dspVars>>

\* mutant: a failed pop discards what is buffered
PopLoadR_drain ==
    /\ cpc = "pop_load_r"
    /\ c_r' = read
    /\ IF avail_data(c_w, read) < Len(out)
       THEN /\ c_ok' = FALSE
            /\ cpc' = "render_finish"
            /\ read' = c_w
            /\ UNCHANGED <<c_ri, c_i>>
       ELSE /\ c_ri' = read
            /\ c_i' = 1
            /\ cpc' = "pop_copy"
            /\ UNCHANGED <<c_ok, read>>
    /\ UNCHANGED <<out_fmt, out, tmp, c_w>>
    /\ UNCHANGED <<buf, mask, write, prodVars, histVars>>
    /\ UNCHANGED <<engVars, capVars, dspVars>>

\* let r = self.read.load(Relaxed); avail; if avail < out.len() { return false }
PopLoadR ==
    /\ cpc = "pop_load_r"
    /\ c_r' = read
    /\ IF avail_data(c_w, read) < Len(out)
       THEN /\ c_ok' = FALSE
            /\ cpc' = "render_finish"
            /\ UNCHANGED <<c_ri, c_i>>
       ELSE /\ c_ri' = read
            /\ c_i' = 1
            /\ cpc' = "pop_copy"
            /\ UNCHANGED c_ok
    /\ UNCHANGED <<out_fmt, out, tmp, c_w>>
    /\ UNCHANGED <<ringVars, prodVars, histVars>>
    /\ UNCHANGED <<engVars, capVars, dspVars>>

\* one iteration of: for o in out.iter_mut() { *o = buf[ri & mask]; ri = ri.wrapping_add(1) }
PopCopy ==
    /\ cpc = "pop_copy"
    /\ c_i <= Len(out)
    /\ IF out_fmt = "F32"
       THEN /\ out' = [out EXCEPT ![c_i] = Fresh(buf[slot(c_ri)])]
            /\ UNCHANGED tmp
       ELSE /\ tmp' = [tmp EXCEPT ![c_i] = buf[slot(c_ri)]]
            /\ UNCHANGED out
    /\ c_ri' = wrapping_add(c_ri, 1)
    /\ c_i' = c_i + 1
    /\ UNCHANGED <<cpc, out_fmt, c_w, c_r, c_ok>>
    /\ UNCHANGED <<ringVars, prodVars, histVars>>
    /\ UNCHANGED <<engVars, capVars, dspVars>>

\* self.read.store(ri, Release); true
PopStore ==
    /\ cpc = "pop_copy"
    /\ c_i > Len(out)
    /\ read' = c_ri
    /\ c_ok' = TRUE
    /\ cpc' = "render_finish"
    /\ c_expect' = SubSeq(fifo, 1, Min(Len(out), Len(fifo)))
    /\ fifo' = SubSeq(fifo, Min(Len(out), Len(fifo)) + 1, Len(fifo))
    /\ UNCHANGED <<buf, mask, write>>
    /\ UNCHANGED <<out_fmt, out, tmp, c_w, c_r, c_ri, c_i>>
    /\ UNCHANGED <<prodVars, c_held>>
    /\ UNCHANGED <<engVars, capVars, dspVars>>

\* mutant: the i16 callback has no else branch
RenderFinish_no_fill ==
    /\ cpc = "render_finish"
    /\ \/ /\ out_fmt = "F32"
          /\ out' = IF c_ok THEN out
                    ELSE [i \in 1..Len(out) |-> Fresh(0)]
       \/ /\ out_fmt = "I16"
          /\ out' = IF c_ok THEN [i \in 1..Len(out) |-> Fresh(denorm_i16(tmp[i]))]
                    ELSE out
       \/ /\ out_fmt = "U16"
          /\ out' = IF c_ok THEN [i \in 1..Len(out) |-> Fresh(denorm_u16(tmp[i]))]
                    ELSE [i \in 1..Len(out) |-> Fresh(32768)]
    /\ cpc' = "render_ret"
    /\ UNCHANGED <<out_fmt, tmp, c_w, c_r, c_ri, c_i, c_ok>>
    /\ UNCHANGED <<ringVars, prodVars, histVars>>
    /\ UNCHANGED <<engVars, capVars, dspVars>>

\* the rest of the output callback, after pop_into has returned c_ok
RenderFinish ==
    /\ cpc = "render_finish"
    /\ \/ /\ out_fmt = "F32"
          /\ out' = IF c_ok THEN out
                    ELSE [i \in 1..Len(out) |-> Fresh(0)]
       \/ /\ out_fmt = "I16"
          /\ out' = IF c_ok THEN [i \in 1..Len(out) |-> Fresh(denorm_i16(tmp[i]))]
                    ELSE [i \in 1..Len(out) |-> Fresh(0)]
       \/ /\ out_fmt = "U16"
          /\ out' = IF c_ok THEN [i \in 1..Len(out) |-> Fresh(denorm_u16(tmp[i]))]
                    ELSE [i \in 1..Len(out) |-> Fresh(32768)]
    /\ cpc' = "render_ret"
    /\ UNCHANGED <<out_fmt, tmp, c_w, c_r, c_ri, c_i, c_ok>>
    /\ UNCHANGED <<ringVars, prodVars, histVars>>
    /\ UNCHANGED <<engVars, capVars, dspVars>>

\* the callback returns: the device takes the block, the locals die
RenderReturn ==
    /\ cpc = "render_ret"
    /\ cpc' = "idle"
    /\ out' = <<>>
    /\ tmp' = <<>>
    /\ c_w' = 0 /\ c_r' = 0 /\ c_ri' = 0 /\ c_i' = 0
    /\ c_ok' = TRUE
    /\ c_expect' = <<>>
    /\ c_held' = 0
    /\ UNCHANGED <<out_fmt, fifo>>
    /\ UNCHANGED <<ringVars, prodVars>>
    /\ UNCHANGED <<engVars, capVars, dspVars>>

(* ============================== Engine ================================ *)

\* bound on the number of Engine::start calls
MaxStarts == 2

\* Option<T>
None == <<>>
Some(x) == <<x>>

(* ------------------------- strings and devices ------------------------ *)

UpperCase == <<"A","B","C","D","E","F","G","H","I","J","K","L","M",
               "N","O","P","Q","R","S","T","U","V","W","X","Y","Z">>
LowerCase == <<"a","b","c","d","e","f","g","h","i","j","k","l","m",
               "n","o","p","q","r","s","t","u","v","w","x","y","z">>

\* let normalize = |s: &str| s.to_lowercase(), a string being its characters
normalize(str) ==
    [i \in 1..Len(str) |->
        IF \E k \in 1..Len(UpperCase) : UpperCase[k] = str[i]
        THEN LowerCase[CHOOSE k \in 1..Len(UpperCase) : UpperCase[k] = str[i]]
        ELSE str[i]]

\* str::contains
contains(hay, needle) ==
    \E k \in 0..(Len(hay) - Len(needle)) : SubSeq(hay, k + 1, k + Len(needle)) = needle

\* a cpal::Device: its name, whether supported_{input,output}_configs() is Ok,
\* and the sample format of its default {input,output} config ("none": Err)
Device(id, name, ins, outs, ifmt, ofmt) ==
    [id |-> id, name |-> name, supports_input |-> ins, supports_output |-> outs,
     input_format |-> ifmt, output_format |-> ofmt]

DevMic == Device(1, <<"M","i","c">>, TRUE, FALSE, "F32", "none")
DevUsb == Device(2, <<"U","S","B"," ","M","i","c">>, TRUE, TRUE, "I16", "U16")
DevSpk == Device(3, <<"S","p","k">>, FALSE, TRUE, "none", "F32")
DevOdd == Device(4, <<"O","d","d">>, TRUE, TRUE, "I8", "I8")
DevNoCfg == Device(5, <<"N","o","C","f","g">>, TRUE, TRUE, "none", "none")

DeviceLists ==
    { <<>>,
      <<DevMic, DevSpk>>,
      <<DevSpk, DevMic, DevUsb>>,
      <<DevOdd, DevUsb, DevMic, DevSpk>>,
      <<DevNoCfg, DevMic, DevSpk>> }

\* what cpal::default_host() may answer: host.devices() (Err when devices_ok is
\* false), default_input_device(), default_output_device()
Hosts ==
    { [devices_ok |-> ok, devices |-> l, default_input |-> di, default_output |-> do] :
        ok \in BOOLEAN, l \in DeviceLists,
        di \in {None, Some(DevMic), Some(DevOdd)}, do \in {None, Some(DevSpk)} }

NoHost == [devices_ok |-> TRUE, devices |-> <<>>,
           default_input |-> None, default_output |-> None]

Query_mic == <<"m","i","c">>
Query_USB == <<"U","S","B">>
Query_zz == <<"z","z">>
Query_spk == <<"s","p","k">>

\* EngineConfig: the selector fields
EngineConfig(iname, oname, iidx, oidx) ==
    [input_name |-> iname, output_name |-> oname,
     input_index |-> iidx, output_index |-> oidx]

\* impl Default for EngineConfig
DefaultConfig == EngineConfig(None, None, None, None)

Configs ==
    { EngineConfig(iname, oname, iidx, oidx) :
        iname \in {None, Some(Query_mic), Some(Query_USB), Some(Query_zz)},
        oname \in {None, Some(Query_spk)},
        iidx \in {None, Some(0), Some(1), Some(9)},
        oidx \in {None, Some(0)} }

(* ----------------------------- pick_device ---------------------------- *)

\* the capability filter of both loops
capable(dev, want_input) ==
    IF want_input THEN dev.supports_input ELSE dev.supports_output

\* first loop: the idx-th capable device, counting from 0
index_match(host, want_input, idx) ==
    LET ok == SelectSeq(host.devices, LAMBDA d : capable(d, want_input))
    IN  IF idx < Len(ok) THEN Some(ok[idx + 1]) ELSE None

\* second loop: the first capable device whose lowercased name contains the
\* lowercased query
name_match(host, want_input, q) ==
    LET ok == SelectSeq(host.devices,
                LAMBDA d : contains(normalize(d.name), normalize(q))
                           /\ capable(d, want_input))
    IN  IF Len(ok) > 0 THEN Some(ok[1]) ELSE None

\* host.default_input_device() / host.default_output_device()
default_device(host, want_input) ==
    IF want_input THEN host.default_input ELSE host.default_output

Ok(d) == [err |-> FALSE, dev |-> d]
Err == [err |-> TRUE, dev |-> None]

\* mutant: no fallback to the default device when a selector was given
pick_device_no_fallback(host, want_input, name_substr, index) ==
    IF index # None /\ ~host.devices_ok THEN Err
    ELSE IF index # None /\ index_match(host, want_input, index[1]) # None
    THEN Ok(index_match(host, want_input, index[1]))
    ELSE IF name_substr # None /\ ~host.devices_ok THEN Err
    ELSE IF name_substr # None /\ name_match(host, want_input, name_substr[1]) # None
    THEN Ok(name_match(host, want_input, name_substr[1]))
    ELSE IF index # None \/ name_substr # None THEN Ok(None)
    ELSE Ok(default_device(host, want_input))

\* fn pick_device -> Result<Option<Device>>
pick_device(host, want_input, name_substr, index) ==
    IF index # None /\ ~host.devices_ok THEN Err
    ELSE IF index # None /\ index_match(host, want_input, index[1]) # None
    THEN Ok(index_match(host, want_input, index[1]))
    ELSE IF name_substr # None /\ ~host.devices_ok THEN Err
    ELSE IF name_substr # None /\ name_match(host, want_input, name_substr[1]) # None
    THEN Ok(name_match(host, want_input, name_substr[1]))
    ELSE Ok(default_device(host, want_input))

(* ------------------------------ streams ------------------------------- *)

\* a cpal::Stream built on device dev, whose callback holds ring number ring
Stream(dir, dev, ring) == [dir |-> dir, dev |-> dev.id, ring |-> ring, st |-> "built"]

\* drop of an Option<cpal::Stream>
Drop(ss, opt) == IF opt = None THEN ss ELSE [ss EXCEPT ![opt[1]].st = "dropped"]

SupportedFormats == {"F32", "I16", "U16"}

EngInit(cfgs) ==
    /\ cfg \in cfgs
    /\ self_input_stream = None
    /\ self_output_stream = None
    /\ streams = <<>>
    /\ starts = 0
    /\ epc = "idle"
    /\ in_dev = None /\ out_dev = None
    /\ input_stream = None /\ output_stream = None
    /\ ring_id = 0
    /\ e_host = NoHost
    /\ e_pre = [input |-> None, output |-> None, nstreams |-> 0]

Snapshot == [input |-> self_input_stream, output |-> self_output_stream,
             nstreams |-> Len(streams)]

(* --------------------------- Engine::start ---------------------------- *)

\* lines 51-97: the devices, their default configs, the ring and the chain
StartResolve ==
    /\ epc = "idle"
    /\ starts < MaxStarts
    /\ starts' = starts + 1
    /\ e_pre' = Snapshot
    /\ \E h \in Hosts :
         LET pi == pick_device(h, TRUE, cfg.input_name, cfg.input_index)
             po == pick_device(h, FALSE, cfg.output_name, cfg.output_index)
         IN  /\ e_host' = h
             /\ IF pi.err \/ pi.dev = None
                THEN /\ epc' = "unwind"
                     /\ UNCHANGED <<in_dev, out_dev, ring_id>>
                ELSE IF po.err \/ po.dev = None
                THEN /\ epc' = "unwind"
                     /\ in_dev' = pi.dev
                     /\ UNCHANGED <<out_dev, ring_id>>
                ELSE /\ in_dev' = pi.dev
                     /\ out_dev' = po.dev
                     /\ IF pi.dev[1].input_format = "none"
                           \/ po.dev[1].output_format = "none"
                        THEN epc' = "unwind" /\ UNCHANGED ring_id
                        ELSE epc' = "build_input" /\ ring_id' = starts + 1
    /\ UNCHANGED <<cfg, self_input_stream, self_output_stream, streams,
                   input_stream, output_stream>>
    /\ UNCHANGED <<ringVars, prodVars, consVars, histVars, capVars, dspVars>>

\* lines 100-156: match in_cfg_any.sample_format() { .. build_input_stream(..)? .. }
BuildInput ==
    /\ epc = "build_input"
    /\ \/ /\ in_dev[1].input_format \in SupportedFormats
          /\ streams' = Append(streams, Stream("input", in_dev[1], ring_id))
          /\ input_stream' = Some(Len(streams) + 1)
          /\ epc' = "build_output"
       \/ /\ in_dev[1].input_format \in SupportedFormats
          /\ epc' = "unwind"
          /\ UNCHANGED <<streams, input_stream>>
       \/ /\ in_dev[1].input_format \notin SupportedFormats
          /\ epc' = "unwind"
          /\ UNCHANGED <<streams, input_stream>>
    /\ UNCHANGED <<cfg, self_input_stream, self_output_stream, starts,
                   in_dev, out_dev, output_stream, ring_id, e_host, e_pre>>
    /\ UNCHANGED <<ringVars, prodVars, consVars, histVars, capVars, dspVars>>

\* lines 159-209: match out_cfg_any.sample_format() { .. build_output_stream(..)? .. }
BuildOutput ==
    /\ epc = "build_output"
    /\ \/ /\ out_dev[1].output_format \in SupportedFormats
          /\ streams' = Append(streams, Stream("output", out_dev[1], ring_id))
          /\ output_stream' = Some(Len(streams) + 1)
          /\ epc' = "play_input"
       \/ /\ out_dev[1].output_format \in SupportedFormats
          /\ epc' = "unwind"
          /\ UNCHANGED <<streams, output_stream>>
       \/ /\ out_dev[1].output_format \notin SupportedFormats
          /\ epc' = "unwind"
          /\ UNCHANGED <<streams, output_stream>>
    /\ UNCHANGED <<cfg, self_input_stream, self_output_stream, starts,
                   in_dev, out_dev, input_stream, ring_id, e_host, e_pre>>
    /\ UNCHANGED <<ringVars, prodVars, consVars, histVars, capVars, dspVars>>

\* input_stream.play().context("Failed to play input stream")?
PlayInput ==
    /\ epc = "play_input"
    /\ \/ /\ streams' = [streams EXCEPT ![input_stream[1]].st = "playing"]
          /\ epc' = "play_output"
       \/ /\ epc' = "unwind"
          /\ UNCHANGED streams
    /\ UNCHANGED <<cfg, self_input_stream, self_output_stream, starts,
                   in_dev, out_dev, input_stream, output_stream, ring_id,
                   e_host, e_pre>>
    /\ UNCHANGED <<ringVars, prodVars, consVars, histVars, capVars, dspVars>>

\* output_stream.play().context("Failed to play output stream")?
PlayOutput ==
    /\ epc = "play_output"
    /\ \/ /\ streams' = [streams EXCEPT ![output_stream[1]].st = "playing"]
          /\ epc' = "assign_input"
       \/ /\ epc' = "unwind"
          /\ UNCHANGED streams
    /\ UNCHANGED <<cfg, self_input_stream, self_output_stream, starts,
                   in_dev, out_dev, input_stream, output_stream, ring_id,
                   e_host, e_pre>>
    /\ UNCHANGED <<ringVars, prodVars, consVars, histVars, capVars, dspVars>>

\* mutant: the stream the engine held is leaked instead of dropped
AssignInput_keep_old ==
    /\ epc = "assign_input"
    /\ self_input_stream' = input_stream
    /\ input_stream' = None
    /\ epc' = "assign_output"
    /\ UNCHANGED <<cfg, self_output_stream, starts, streams,
                   in_dev, out_dev, output_stream, ring_id, e_host, e_pre>>
    /\ UNCHANGED <<ringVars, prodVars, consVars, histVars, capVars, dspVars>>

\* self.input_stream = Some(input_stream): the value held before is dropped
AssignInput ==
    /\ epc = "assign_input"
    /\ streams' = Drop(streams, self_input_stream)
    /\ self_input_stream' = input_stream
    /\ input_stream' = None
    /\ epc' = "assign_output"
    /\ UNCHANGED <<cfg, self_output_stream, starts,
                   in_dev, out_dev, output_stream, ring_id, e_host, e_pre>>
    /\ UNCHANGED <<ringVars, prodVars, consVars, histVars, capVars, dspVars>>

\* self.output_stream = Some(output_stream); Ok(())
AssignOutput ==
    /\ epc = "assign_output"
    /\ streams' = Drop(streams, self_output_stream)
    /\ self_output_stream' = output_stream
    /\ output_stream' = None
    /\ epc' = "ret_ok"
    /\ UNCHANGED <<cfg, self_input_stream, starts,
                   in_dev, out_dev, input_stream, ring_id, e_host, e_pre>>
    /\ UNCHANGED <<ringVars, prodVars, consVars, histVars, capVars, dspVars>>

\* mutant: the input stream built by the failing call is kept alive
StartUnwind_leak_input ==
    /\ epc = "unwind"
    /\ streams' = Drop(streams, output_stream)
    /\ input_stream' = None
    /\ output_stream' = None
    /\ epc' = "ret_err"
    /\ UNCHANGED <<cfg, self_input_stream, self_output_stream, starts,
                   in_dev, out_dev, ring_id, e_host, e_pre>>
    /\ UNCHANGED <<ringVars, prodVars, consVars, histVars, capVars, dspVars>>

\* an early return through `?` or Err(anyhow!(..)): the locals are dropped
StartUnwind ==
    /\ epc = "unwind"
    /\ streams' = Drop(Drop(streams, output_stream), input_stream)
    /\ input_stream' = None
    /\ output_stream' = None
    /\ epc' = "ret_err"
    /\ UNCHANGED <<cfg, self_input_stream, self_output_stream, starts,
                   in_dev, out_dev, ring_id, e_host, e_pre>>
    /\ UNCHANGED <<ringVars, prodVars, consVars, histVars, capVars, dspVars>>

(* ---------------------------- Engine::stop ---------------------------- *)

\* self.input_stream = None
StopInput ==
    /\ epc = "idle"
    /\ e_pre' = Snapshot
    /\ streams' = Drop(streams, self_input_stream)
    /\ self_input_stream' = None
    /\ epc' = "stop_output"
    /\ UNCHANGED <<cfg, self_output_stream, starts, in_dev, out_dev,
                   input_stream, output_stream, ring_id, e_host>>
    /\ UNCHANGED <<ringVars, prodVars, consVars, histVars, capVars, dspVars>>

\* mutant: the output stream is left in place
StopOutput_skip ==
    /\ epc = "stop_output"
    /\ epc' = "ret_stop"
    /\ UNCHANGED <<cfg, self_input_stream, self_output_stream, streams, starts,
                   in_dev, out_dev, input_stream, output_stream, ring_id,
                   e_host, e_pre>>
    /\ UNCHANGED <<ringVars, prodVars, consVars, histVars, capVars, dspVars>>

\* self.output_stream = None
StopOutput ==
    /\ epc = "stop_output"
    /\ streams' = Drop(streams, self_output_stream)
    /\ self_output_stream' = None
    /\ epc' = "ret_stop"
    /\ UNCHANGED <<cfg, self_input_stream, starts, in_dev, out_dev,
                   input_stream, output_stream, ring_id, e_host, e_pre>>
    /\ UNCHANGED <<ringVars, prodVars, consVars, histVars, capVars, dspVars>>

\* start or stop has returned to the caller
CallReturn ==
    /\ epc \in {"ret_ok", "ret_err", "ret_stop"}
    /\ epc' = "idle"
    /\ in_dev' = None /\ out_dev' = None
    /\ ring_id' = 0
    /\ e_host' = NoHost
    /\ e_pre' = [input |-> None, output |-> None, nstreams |-> 0]
    /\ UNCHANGED <<cfg, self_input_stream, self_output_stream, streams, starts,
                   input_stream, output_stream>>
    /\ UNCHANGED <<ringVars, prodVars, consVars, histVars, capVars, dspVars>>

(* ------------------ state outside the running session ----------------- *)

\* the capacity Engine::start asked of with_capacity
CapInit == req = CapRequest

\* no Chain is being exercised on its own
DspIdle ==
    /\ chain = [effects |-> <<>>, sample_rate |-> 0, channels |-> 0]
    /\ dsp_block = [given |-> <<>>, left |-> <<>>]
    /\ calls = <<>>

(* --------------------------- specification ---------------------------- *)

\* one session's ring and its two callbacks, on an engine built from the
\* default configuration
Init ==
    /\ RingInit /\ ProdInit /\ ConsInit /\ HistInit /\ EngInit({DefaultConfig})
    /\ CapInit /\ DspIdle

Next ==
    \/ CaptureBegin
    \/ PushLoadR
    \/ PushLoadW
    \/ PushWrite
    \/ PushStore
    \/ CaptureReturn
    \/ RenderBegin
    \/ PopLoadW
    \/ PopLoadR
    \/ PopCopy
    \/ PopStore
    \/ RenderFinish
    \/ RenderReturn

Spec == Init /\ [][Next]_vars

\* the thread that owns the Engine: Engine::new(cfg), then start and stop calls
EngineInit ==
    /\ RingInit /\ ProdInit /\ ConsInit /\ HistInit
    /\ out_fmt = "F32"
    /\ EngInit(Configs)
    /\ CapInit /\ DspIdle

EngineNext ==
    \/ StartResolve
    \/ BuildInput
    \/ BuildOutput
    \/ PlayInput
    \/ PlayOutput
    \/ AssignInput
    \/ AssignOutput
    \/ StartUnwind
    \/ StopInput
    \/ StopOutput
    \/ CallReturn

EngineSpec == EngineInit /\ [][EngineNext]_vars

(* ======================== properties of the ring ====================== *)

\* the buffered samples sit in the backing buffer, in order, from the read cursor on
RingHoldsFifo ==
    \A i \in 1..Len(fifo) : buf[slot(wrapping_add(read, i - 1))] = fifo[i]

\* a step of the producer thread / of the consumer thread
ProducerStep == ppc' # ppc
ConsumerStep == cpc' # cpc

(* C1: FIFO fidelity.  fifo is the concatenation of the blocks of the
   successful push_slice calls minus the samples successful pop_into calls
   have delivered, so "the popped samples, concatenated, are a prefix of the
   pushed samples, concatenated" is: every successful pop_into returns, in its
   slice, exactly the samples at the head of fifo (c_expect), as many as it
   was asked for.  Checked under every interleaving of the two threads'
   cursor loads, per-sample buffer accesses and cursor stores. *)
C1_FifoFidelity ==
    (cpc = "render_finish" /\ c_ok) =>
        /\ Len(c_expect) = Len(out)
        /\ PopTarget = c_expect

\* a pop of two different samples returns while a push is between its two writes
C1_Witness ==
    /\ cpc = "render_finish" /\ c_ok
    /\ Len(out) >= 2
    /\ c_expect[1] # c_expect[2]
    /\ ppc = "push_write" /\ p_i = 2

(* C2: occupancy invariant.  In every reachable state the published cursors
   satisfy 0 <= (write - read) mod 2^w <= C - 1, and that difference is the
   number of samples pushed and not yet popped. *)
C2_Occupancy ==
    /\ wrapping_sub(write, read) \in 0..(BufLen - 1)
    /\ wrapping_sub(write, read) = Len(fifo)

\* the ring is full (C - 1 samples) and the write cursor has wrapped past 2^w
C2_Witness ==
    /\ wrapping_sub(write, read) = BufLen - 1
    /\ write < read

(* C3: all-or-nothing push.  The step of push_slice that finds the data longer
   than the free space it computes returns false and changes neither cursor,
   no slot of the backing buffer and nothing of what is buffered; and after a
   failed push the samples buffered before it are still in the buffer, in
   order, at the read cursor. *)
C3_AllOrNothingPush ==
    /\ []((ppc = "capture_ret" /\ ~p_ok) => RingHoldsFifo)
    /\ [][(/\ ppc = "push_load_w"
           /\ ProducerStep
           /\ Len(scratch) > BufLen - 1 - len(write, p_r))
          => (/\ ppc' = "capture_ret"
              /\ ~p_ok'
              /\ write' = write
              /\ read' = read
              /\ buf' = buf
              /\ fifo' = fifo)]_vars

\* a block of two was refused while two samples were buffered
C3_Witness ==
    /\ ppc = "capture_ret" /\ ~p_ok
    /\ Len(scratch) = 2
    /\ Len(fifo) = 2
    /\ fifo[1] # fifo[2]

(* C4: a failed pop has no side effect.  A pop_into asked for more samples
   than the ring held when it loaded the write cursor returns false; the step
   that returns false writes no element of the caller's slice and changes
   neither cursor, no buffer slot and nothing of what is buffered. *)
C4_FailedPopNoEffect ==
    /\ []((cpc = "render_finish" /\ Len(out) > c_held) => ~c_ok)
    /\ []((cpc = "render_finish" /\ ~c_ok) => RingHoldsFifo)
    /\ [][(/\ cpc = "pop_load_r"
           /\ ConsumerStep
           /\ Len(out) > len(c_w, read))
          => (/\ cpc' = "render_finish"
              /\ ~c_ok'
              /\ out' = out
              /\ tmp' = tmp
              /\ read' = read
              /\ write' = write
              /\ buf' = buf
              /\ fifo' = fifo)]_vars

\* two samples were asked for while one was buffered
C4_Witness ==
    /\ cpc = "render_finish" /\ ~c_ok
    /\ Len(out) = 2
    /\ Len(fifo) = 1

\* the silence value of an output format
SilenceValue(fmt) == IF fmt = "U16" THEN 32768 ELSE 0

\* the value of ring sample v in an output format
Converted(fmt, v) ==
    IF fmt = "F32" THEN v
    ELSE IF fmt = "I16" THEN denorm_i16(v)
    ELSE denorm_u16(v)

(* C5: underrun yields silence.  When the render callback returns, every
   element of the output block has been written by this invocation: all of
   them with the silence value when the ring held fewer samples than the
   block, all of them with the converted samples at the head of the ring
   otherwise. *)
C5_UnderrunSilence ==
    cpc = "render_ret" =>
        IF c_held < Len(out)
        THEN \A i \in 1..Len(out) : out[i] = Fresh(SilenceValue(out_fmt))
        ELSE /\ Len(c_expect) = Len(out)
             /\ \A i \in 1..Len(out) : out[i] = Fresh(Converted(out_fmt, c_expect[i]))

\* a u16 block of two was asked for while the ring held one sample
C5_Witness ==
    /\ cpc = "render_ret"
    /\ out_fmt = "U16"
    /\ Len(out) = 2
    /\ c_held = 1

(* ====================== properties of the engine ====================== *)

\* the positions of a start call, and those of a start call that has failed
StartStates == {"build_input", "build_output", "play_input", "play_output",
                "assign_input", "assign_output", "ret_ok", "unwind", "ret_err"}
FailingStates == {"unwind", "ret_err"}

\* the streams built since the running call began
NewStreams == (e_pre.nstreams + 1)..Len(streams)

\* a stream the host is running or may run: built or playing, not dropped
Active(i) == streams[i].st # "dropped"

Released(opt) == opt = None \/ streams[opt[1]].st = "dropped"

(* C6: a failed start leaves nothing running.  When start returns an error,
   every stream built during the call has been dropped and the engine holds
   what it held before the call (an Idle engine is still Idle); and whenever a
   start call returns, with or without error, the engine holds both streams or
   neither. *)
C6_FailedStartLeavesNothing ==
    /\ epc = "ret_err" =>
          /\ \A i \in NewStreams : ~Active(i)
          /\ self_input_stream = e_pre.input
          /\ self_output_stream = e_pre.output
    /\ epc \in {"ret_ok", "ret_err"} =>
          ((self_input_stream = None) <=> (self_output_stream = None))

\* start failed on an Idle engine after both streams were built
C6_Witness ==
    /\ epc = "ret_err"
    /\ e_pre.input = None /\ e_pre.output = None
    /\ Cardinality(NewStreams) = 2

(* C7: start while Running replaces the prior session.  When start returns Ok
   on an engine that held a session, the engine holds the two streams built
   by this call, both playing and both bound to the ring created by this call,
   which no earlier stream is bound to; both streams of the prior session have
   been dropped. *)
C7_StartReplacesSession ==
    (epc = "ret_ok" /\ e_pre.input # None /\ e_pre.output # None) =>
        /\ self_input_stream # None /\ self_output_stream # None
        /\ NewStreams = {self_input_stream[1], self_output_stream[1]}
        /\ streams[self_input_stream[1]].dir = "input"
        /\ streams[self_output_stream[1]].dir = "output"
        /\ \A i \in NewStreams : streams[i].st = "playing" /\ streams[i].ring = ring_id
        /\ \A i \in 1..e_pre.nstreams : streams[i].ring # ring_id
        /\ Released(e_pre.input)
        /\ Released(e_pre.output)
        /\ e_pre.input # self_input_stream
        /\ e_pre.output # self_output_stream

\* a second start has succeeded on a Running engine
C7_Witness ==
    /\ epc = "ret_ok"
    /\ e_pre.input # None /\ e_pre.output # None

\* a step of Engine::stop
StopStep == epc \in {"idle", "stop_output"} /\ epc' \in {"stop_output", "ret_stop"}

(* C8: stop is idempotent and total.  When stop returns the engine is Idle
   and the streams it held are dropped; a step of stop on an engine that holds
   no stream changes neither the engine's streams nor any stream of the host,
   so a second stop changes nothing. *)
C8_StopIdempotent ==
    /\ [](epc = "ret_stop" =>
            /\ self_input_stream = None
            /\ self_output_stream = None
            /\ Released(e_pre.input)
            /\ Released(e_pre.output))
    /\ [][(StopStep /\ self_input_stream = None /\ self_output_stream = None)
          => UNCHANGED <<self_input_stream, self_output_stream, streams>>]_vars

\* stop has returned on an engine that was Running
C8_Witness ==
    /\ epc = "ret_stop"
    /\ e_pre.input # None /\ e_pre.output # None
    /\ streams[e_pre.input[1]].st = "dropped"

\* the selectors of a direction, and the device start resolved for it
sel_name(want_input) == IF want_input THEN cfg.input_name ELSE cfg.output_name
sel_index(want_input) == IF want_input THEN cfg.input_index ELSE cfg.output_index
resolved(want_input) == IF want_input THEN in_dev ELSE out_dev

(* C9: selector priority.  When a direction is given both a name and an
   index, and the name matches a capable device other than the capable device
   at that index, start resolves the direction to the device matched by name. *)
C9_NameWinsOverIndex ==
    epc = "build_input" =>
        \A want_input \in BOOLEAN :
            LET n == sel_name(want_input)
                i == sel_index(want_input)
            IN  (/\ n # None /\ i # None
                 /\ name_match(e_host, want_input, n[1]) # None
                 /\ index_match(e_host, want_input, i[1]) # None
                 /\ name_match(e_host, want_input, n[1])
                        # index_match(e_host, want_input, i[1]))
                => resolved(want_input) = name_match(e_host, want_input, n[1])

\* a direction has a selector, the device list can be read, and no capable
\* device matches the index (if given) nor the name (if given)
Unmatched(want_input) ==
    LET n == sel_name(want_input)
        i == sel_index(want_input)
    IN  /\ n # None \/ i # None
        /\ e_host.devices_ok
        /\ i # None => index_match(e_host, want_input, i[1]) = None
        /\ n # None => name_match(e_host, want_input, n[1]) = None

(* C10 as claimed: a start call whose selector matches no capable device
   fails, so a call that gets past device resolution has no unmatched
   selector. *)
C10_UnmatchedSelectorFails ==
    epc \in (StartStates \ FailingStates) =>
        ~Unmatched(TRUE) /\ ~Unmatched(FALSE)

(* C10 as amended: an unmatched selector falls back to the host's default
   device of that direction and start carries on with it; only when that
   direction has no default device does start fail, and a start that returns
   an error leaves the engine holding what it held before. *)
C10_UnmatchedFallsBack ==
    /\ (epc \in StartStates /\ Unmatched(TRUE)) =>
          IF e_host.default_input = None
          THEN epc \in FailingStates /\ in_dev = None
          ELSE in_dev = e_host.default_input
    /\ (epc \in StartStates /\ in_dev # None /\ Unmatched(FALSE)) =>
          IF e_host.default_output = None
          THEN epc \in FailingStates /\ out_dev = None
          ELSE out_dev = e_host.default_output
    /\ epc = "ret_err" =>
          /\ self_input_stream = e_pre.input
          /\ self_output_stream = e_pre.output

\* start got past device resolution on the default input device although the
\* input selector matched nothing
C10_Witness ==
    /\ epc = "build_input"
    /\ Unmatched(TRUE)
    /\ in_dev = e_host.default_input

(* ==================== properties of the two callbacks ================= *)

\* let mut scratch = Vec::<f32>::with_capacity(cap): room for cap samples
scratch_capacity == req

\* scratch.clear(); scratch.extend_from_slice(data) / scratch.reserve(data.len()):
\* the Vec reallocates when it is asked to hold more than its capacity
vec_grows(capacity, n) == n > capacity

\* vec![0.0f32; n]: a heap buffer of n samples (none for n = 0)
vec_allocates(n) == n > 0

\* the running capture callback has allocated
CaptureAllocates == ppc # "idle" /\ vec_grows(scratch_capacity, Len(scratch))

\* the running render callback has allocated: the i16 and u16 callbacks
\* create tmp on entry
RenderAllocates == cpc # "idle" /\ out_fmt # "F32" /\ vec_allocates(Len(tmp))

(* C11: no allocation in the callbacks.  No invocation of the capture
   callback or of the render callback allocates memory, whatever the sample
   format, for blocks no longer than the ring capacity. *)
C11_NoAllocation ==
    /\ (ppc # "idle" /\ Len(scratch) <= BufLen) => ~CaptureAllocates
    /\ (cpc # "idle" /\ Len(out) <= BufLen) => ~RenderAllocates

(* ============================ Chain and Gain ========================== *)

\* the largest finite f32 magnitude, scaled down (in whole units)
FloatMax == 16
\* the most effects a Chain is given
MaxEffects == 2

\* an f32: a finite value k / Unit, an infinity, or NaN
F(k) == [t |-> "fin", k |-> k]
PosInf == [t |-> "inf", k |-> 1]
NegInf == [t |-> "inf", k |-> -1]
NaN == [t |-> "nan", k |-> 0]

Sign(k) == IF k > 0 THEN 1 ELSE IF k < 0 THEN -1 ELSE 0

\* division rounded to the nearest integer, halves away from zero (b > 0)
RoundDiv(a, b) ==
    IF a >= 0 THEN (2 * a + b) \div (2 * b) ELSE -((2 * (-a) + b) \div (2 * b))

\* a real number k / Unit as an f32: beyond FloatMax it is an infinity
f32_of(k) ==
    IF k > FloatMax * Unit THEN PosInf
    ELSE IF k < -(FloatMax * Unit) THEN NegInf
    ELSE F(k)

\* f32 multiplication
f32_mul(a, b) ==
    IF a.t = "nan" \/ b.t = "nan" THEN NaN
    ELSE IF a.t = "inf" \/ b.t = "inf"
    THEN IF Sign(a.k) * Sign(b.k) = 0 THEN NaN
         ELSE IF Sign(a.k) * Sign(b.k) > 0 THEN PosInf ELSE NegInf
    ELSE f32_of(RoundDiv(a.k * b.k, Unit))

\* f32 comparisons: false on NaN
f32_gt(a, b) == a.t # "nan" /\ b.t # "nan" /\
    IF a.t = "inf" THEN a.k > 0 /\ b # PosInf
    ELSE IF b.t = "inf" THEN b.k < 0
    ELSE a.k > b.k
f32_lt(a, b) == f32_gt(b, a)

RECURSIVE Pow10(_)
Pow10(n) == IF n = 0 THEN 1 ELSE 10 * Pow10(n - 1)

\* the gains in dB a Gain is built with (whole multiples of 20 dB)
GainDbs == {-20, 0, 20, 40}

\* fn recompute: self.lin = 10f32.powf(self.db / 20.0)
Gain_recompute(db) ==
    IF db >= 0 THEN f32_of(Unit * Pow10(db \div 20))
    ELSE F(RoundDiv(Unit, Pow10((-db) \div 20)))

\* Gain::new(db), numbered id; prepared: the prepare calls it has received
Gain_new(id, db) == [id |-> id, db |-> db, lin |-> Gain_recompute(db), prepared |-> <<>>]

\* Gain::process on one sample:
\* let x = *s * g; *s = if x > 1.0 { 1.0 } else if x < -1.0 { -1.0 } else { x }
Gain_process_sample(s, g) ==
    LET x == f32_mul(s, g)
    IN  IF f32_gt(x, F(Unit)) THEN F(Unit)
        ELSE IF f32_lt(x, F(-Unit)) THEN F(-Unit)
        ELSE x

\* Gain::process: for s in block.iter_mut() { .. }
Gain_process(fx, blk) == [i \in 1..Len(blk) |-> Gain_process_sample(blk[i], fx.lin)]

\* Effect::prepare (default: no-op), noted on the effect
Effect_prepare(fx, sr, ch) ==
    [fx EXCEPT !.prepared = Append(@, [sample_rate |-> sr, channels |-> ch])]

\* Chain::new(sample_rate, channels)
Chain_new(sr, ch) == [effects |-> <<>>, sample_rate |-> sr, channels |-> ch]

\* mutant: the effects are run last-pushed first
RECURSIVE Chain_process_reversed(_, _)
Chain_process_reversed(effects, blk) ==
    IF effects = <<>> THEN <<>>
    ELSE LET fx == effects[Len(effects)]
             o == Gain_process(fx, blk)
         IN  <<[fx |-> fx.id, given |-> blk, left |-> o]>>
                 \o Chain_process_reversed(SubSeq(effects, 1, Len(effects) - 1), o)

\* Chain::process: for fx in self.effects.iter_mut() { fx.process(block) };
\* the Effect::process calls it makes, each with the block given and left
RECURSIVE Chain_process(_, _)
Chain_process(effects, blk) ==
    IF effects = <<>> THEN <<>>
    ELSE LET fx == Head(effects)
             o == Gain_process(fx, blk)
         IN  <<[fx |-> fx.id, given |-> blk, left |-> o]>>
                 \o Chain_process(Tail(effects), o)

\* the samples a block is made of, one of them beyond full scale
DspSamples == {F(-(Unit + 1)), F(0), F(1)}

\* let mut chain = Chain::new(sr, channels), before any block
ChainInit ==
    /\ \E sr \in {44100, 48000} : chain = Chain_new(sr, 2)
    /\ dsp_block = [given |-> <<>>, left |-> <<>>]
    /\ calls = <<>>

\* Chain::push(fx): fx.prepare(self.sample_rate, self.channels); self.effects.push(fx)
ChainPush ==
    /\ Len(chain.effects) < MaxEffects
    /\ \E db \in GainDbs :
         LET fx == Gain_new(Len(chain.effects) + 1, db)
         IN  chain' = [chain EXCEPT !.effects =
                         Append(@, Effect_prepare(fx, chain.sample_rate, chain.channels))]
    /\ UNCHANGED <<dsp_block, calls>>
    /\ UNCHANGED <<ringVars, prodVars, consVars, histVars, engVars, capVars>>

\* Chain::process(block) on a block of the caller's, in place
ChainProcess ==
    /\ \E data \in Blocks(DspSamples) :
         /\ calls' = Chain_process(chain.effects, data)
         /\ dsp_block' = [given |-> data,
                          left |-> IF calls' = <<>> THEN data
                                   ELSE calls'[Len(calls')].left]
    /\ UNCHANGED chain
    /\ UNCHANGED <<ringVars, prodVars, consVars, histVars, engVars, capVars>>

DspNext == ChainPush \/ ChainProcess

\* a Chain driven by one thread, as the capture callback drives the session's
DspInit ==
    /\ RingInit /\ ProdInit /\ ConsInit /\ HistInit /\ out_fmt = "F32"
    /\ EngInit({DefaultConfig}) /\ CapInit /\ ChainInit

DspSpec == DspInit /\ [][DspNext]_vars

(* ---------------------- properties of Chain and Gain ------------------ *)

\* an f32 in [-1.0, 1.0]
InUnitRange(x) == x.t = "fin" /\ x.k >= -Unit /\ x.k <= Unit

\* the effect of the chain numbered id
EffectOf(id) == chain.effects[id]

(* C12: gain clipping bound.  Every sample written by Gain::process lies in
   [-1.0, 1.0], for every gain in dB and every input sample; and at 0 dB
   process leaves a sample already in [-1.0, 1.0] as it is. *)
C12_GainClippingBound ==
    \A c \in 1..Len(calls) : \A i \in 1..Len(calls[c].left) :
        /\ InUnitRange(calls[c].left[i])
        /\ (EffectOf(calls[c].fx).db = 0 /\ InUnitRange(calls[c].given[i]))
              => calls[c].left[i] = calls[c].given[i]

\* a step of Chain::process
ProcessStep == chain' = chain /\ <<dsp_block, calls>>' # <<dsp_block, calls>>

(* C16: chain pipeline order.  Every effect of the chain has had prepare
   called exactly once, with the chain's sample rate and channel count, and
   only effects of the chain are processed, so prepare precedes an effect's
   first process; and every Chain::process call invokes the process of each
   effect exactly once, in the order the effects were pushed, the first on
   the caller's block and each next one on the block the previous one left,
   the caller getting back the block the last one left. *)
C16_ChainPipelineOrder ==
    /\ [](\A i \in 1..Len(chain.effects) :
            /\ chain.effects[i].id = i
            /\ chain.effects[i].prepared =
                 <<[sample_rate |-> chain.sample_rate, channels |-> chain.channels]>>)
    /\ [](\A c \in 1..Len(calls) : calls[c].fx \in 1..Len(chain.effects))
    /\ [][ProcessStep =>
            /\ Len(calls') = Len(chain.effects)
            /\ \A i \in 1..Len(calls') :
                 /\ calls'[i].fx = i
                 /\ calls'[i].given = IF i = 1 THEN dsp_block'.given
                                      ELSE calls'[i - 1].left
                 /\ calls'[i].left = Gain_process(chain.effects[i], calls'[i].given)
            /\ dsp_block'.left = IF calls' = <<>> THEN dsp_block'.given
                                 ELSE calls'[Len(calls')].left]_vars

\* a block went through two effects of different gain, the first of which
\* changed it
C16_Witness ==
    /\ Len(calls) = 2
    /\ EffectOf(1).db # EffectOf(2).db
    /\ calls[1].left # calls[1].given
    /\ calls[2].given = calls[1].left

(* ================== further properties of the ring =================== *)

\* the slots a push_slice past its free-space check writes: data.len() slots
\* from the write cursor it loaded
ProducerRegion ==
    IF ppc = "push_write"
    THEN {slot(wrapping_add(p_w, j)) : j \in 0..(Len(scratch) - 1)}
    ELSE {}

\* the slots a pop_into past its availability check copies from: out.len()
\* slots from the read cursor it loaded
ConsumerRegion ==
    IF cpc = "pop_copy"
    THEN {slot(wrapping_add(c_r, j)) : j \in 0..(Len(out) - 1)}
    ELSE {}

(* C13: disjoint access regions.  Under every interleaving of a push_slice
   and a pop_into stepped one slot at a time, the slot the producer is about
   to write is not in the range the consumer is copying from; indeed the
   whole range the push writes and the whole range the pop reads are
   disjoint, although the producer's read cursor and the consumer's write
   cursor may be stale. *)
C13_DisjointRegions ==
    /\ ProducerRegion \cap ConsumerRegion = {}
    /\ (ppc = "push_write" /\ p_i <= Len(scratch)) => slot(p_wi) \notin ConsumerRegion

\* a push and a pop are both between their check and
\* their cursor store, the push having acted on a read cursor that is stale
\* by now
C13_Witness ==
    /\ ppc = "push_write" /\ p_i <= Len(scratch)
    /\ cpc = "pop_copy" /\ c_i <= Len(out)
    /\ p_r # read

(* C19: no permanent stall.  For a capture block length P and a render block
   length Q with P + Q <= C (C the backing size), in every reachable state
   of the ring the published cursors let a push_slice of P samples or a
   pop_into of Q samples through: the free-space check of the one or the
   availability check of the other succeeds. *)
C19_NoPermanentStall ==
    LET free == free_space(write, read)
        avail == avail_data(write, read)
    IN  \A P \in 1..MaxBlock, Q \in 1..MaxBlock :
            P + Q <= BufLen => (~(free < P) \/ ~(avail < Q))

\* block lengths with P + Q = C, and a ring so full that a push of P is refused
\* while a pop of Q goes through
C19_Witness ==
    \E P \in 1..MaxBlock, Q \in 1..MaxBlock :
        /\ P + Q = BufLen
        /\ free_space(write, read) < P
        /\ ~(avail_data(write, read) < Q)
        /\ ppc = "capture_ret" /\ ~p_ok /\ Len(scratch) = P

\* the session's ring and callbacks on an f32 output device: pop_into is
\* handed the device block itself
F32Init == Init /\ out_fmt = "F32"

F32Spec == F32Init /\ [][Next]_vars

(* C20: cursor wraparound.  The cursors are w-bit counters advanced with
   wrapping addition and C divides 2^w: while the write cursor has wrapped
   past 2^w - 1 and the read cursor has not (write < read), the occupancy
   (write - read) mod 2^w masked by C - 1 is the number of buffered samples,
   free space and availability follow from it, and the buffered samples sit
   in order from the read cursor on; and a pop_into whose read cursor wraps
   from 2^w - 1 to 0 while it copies delivers the oldest samples in order. *)
C20_CursorWraparound ==
    /\ write < read =>
          /\ len(write, read) = Len(fifo)
          /\ free_space(write, read) = BufLen - 1 - Len(fifo)
          /\ avail_data(write, read) = Len(fifo)
          /\ RingHoldsFifo
    /\ (cpc = "render_finish" /\ c_ok /\ c_ri < c_r) => PopTarget = c_expect
    /\ WordMod % BufLen = 0

\* a pop of two different samples began at cursor 2^w - 1 and ended at 1, the
\* write cursor having wrapped before
C20_Witness ==
    /\ cpc = "render_finish" /\ c_ok
    /\ c_r = WordMod - 1 /\ c_ri = 1
    /\ c_expect[1] # c_expect[2]
    /\ c_w < c_r

(* ================ further properties of the callbacks ================= *)

\* round(x) of the real number a / b: the nearest integer
round(a, b) == RoundDiv(a, b)

(* C17: denormalization rounds to nearest.  For every ring sample v the i16
   render callback writes round(clamp(v) * 32767) and the u16 render callback
   writes round(((clamp(v) + 1) * 0.5) * 65535): the nearest integer. *)
C17_DenormRoundsNearest ==
    (cpc = "render_ret" /\ c_ok) =>
        \A i \in 1..Len(out) :
            /\ out_fmt = "I16" =>
                  out[i].v = round(clamp(c_expect[i]) * 32767, Unit)
            /\ out_fmt = "U16" =>
                  out[i].v = round((clamp(c_expect[i]) + Unit) * 65535, 2 * Unit)

(* ================= further properties of the engine =================== *)

\* the streams of a direction that are playing
Playing(dir) == {i \in 1..Len(streams) : streams[i].dir = dir /\ streams[i].st = "playing"}

(* C18: single active session.  At every instant at most one capture stream
   and at most one render stream built by the engine is playing: a start on
   a Running engine releases the streams of the prior session before those
   of the new session begin playing. *)
C18_SingleActiveSession ==
    /\ Cardinality(Playing("input")) <= 1
    /\ Cardinality(Playing("output")) <= 1

(* ===================== SpscRingF32::with_capacity ===================== *)

\* the capacities asked for: up to 2^w, the largest backing size whose
\* slots w-bit cursors can tell apart
Requests == 0..WordMod

\* SpscRingF32::with_capacity(req) for each request; no callback has run
CapacityInit ==
    /\ req \in Requests
    /\ with_capacity(req)
    /\ ProdInit /\ ConsInit /\ HistInit /\ out_fmt = "F32"
    /\ EngInit({DefaultConfig}) /\ DspIdle

\* push_slice(data) is entered on the empty ring with a block of up to
\* buf.len() samples
ProbeBegin ==
    /\ ppc = "idle"
    /\ write = read
    /\ \E k \in 0..BufLen : scratch' = [i \in 1..k |-> 1]
    /\ ppc' = "push_load_r"
    /\ UNCHANGED <<p_r, p_w, p_wi, p_i, p_ok>>
    /\ UNCHANGED <<ringVars, consVars, histVars>>
    /\ UNCHANGED <<engVars, capVars, dspVars>>

CapacityNext ==
    \/ ProbeBegin
    \/ PushLoadR
    \/ PushLoadW
    \/ PushWrite
    \/ PushStore
    \/ CaptureReturn

CapacitySpec == CapacityInit /\ [][CapacityNext]_vars

IsPow2(n) == \E e \in 0..(WordBits + 1) : n = Pow2(e)

(* C15: capacity resolution.  with_capacity(n) gives a backing buffer whose
   size is the smallest power of two >= n (size 1 for n = 0 and n = 1) and a
   mask equal to size - 1; a push on the empty ring is accepted exactly when
   its block is no longer than size - 1, so a ring of size 1 accepts no
   non-empty push. *)
C15_CapacityResolution ==
    /\ IsPow2(BufLen)
    /\ BufLen >= req
    /\ BufLen = 1 \/ BufLen \div 2 < req
    /\ req <= 1 => BufLen = 1
    /\ mask = BufLen - 1
    /\ (ppc = "capture_ret" /\ p_r = p_w) => (p_ok <=> Len(scratch) <= BufLen - 1)
    /\ (ppc = "capture_ret" /\ BufLen = 1 /\ Len(scratch) > 0) => ~p_ok

\* a request that is not a power of two, and the largest block its ring accepts
C15_Witness ==
    /\ req = 3
    /\ BufLen = 4
    /\ ppc = "capture_ret" /\ p_ok
    /\ Len(scratch) = 3

(* ============================ wait-freedom ============================ *)

\* the steps of a capture callback that has begun, and of a render callback
\* that has begun
ProducerCall == PushLoadR \/ PushLoadW \/ PushWrite \/ PushStore \/ CaptureReturn
ConsumerCall == PopLoadW \/ PopLoadR \/ PopCopy \/ PopStore \/ RenderFinish \/ RenderReturn

\* input callback entry with a block of equal samples: no branch of either
\* callback looks at a sample's value
CaptureBeginFlat ==
    /\ ppc = "idle"
    /\ \E data \in Blocks({1}) : scratch' = chain_process(data)
    /\ ppc' = "push_load_r"
    /\ UNCHANGED <<p_r, p_w, p_wi, p_i, p_ok>>
    /\ UNCHANGED <<ringVars, consVars, histVars>>
    /\ UNCHANGED <<engVars, capVars, dspVars>>

FlatNext == CaptureBeginFlat \/ ProducerCall \/ RenderBegin \/ ConsumerCall

\* the session's ring and callbacks, whatever the samples
FlatSpec == Init /\ [][FlatNext]_vars

\* the audio host runs each callback it has entered to its end; when it
\* enters one is up to the device
FairSpec == FlatSpec /\ WF_vars(ProducerCall) /\ WF_vars(ConsumerCall)

\* the steps push_slice has left at most: two loads, data.len() writes, a store
PushStepsLeft ==
    CASE ppc = "push_load_r" -> Len(scratch) + 3
      [] ppc = "push_load_w" -> Len(scratch) + 2
      [] ppc = "push_write" -> Len(scratch) + 2 - p_i
      [] OTHER -> 0

\* the steps pop_into has left at most: two loads, out.len() copies, a store
PopStepsLeft ==
    CASE cpc = "pop_load_w" -> Len(out) + 3
      [] cpc = "pop_load_r" -> Len(out) + 2
      [] cpc = "pop_copy" -> Len(out) + 2 - c_i
      [] OTHER -> 0

(* C14: wait-freedom.  Each step of a push_slice (pop_into) call lowers the
   number of steps the call has left, which starts at the length of its
   slice plus three, and the next step of a started call is enabled whatever
   the other side's position: no step loops, retries or waits.  Hence every
   started push_slice and every started pop_into returns. *)
C14_WaitFreedom ==
    /\ [][(PushStepsLeft > 0 /\ prodVars' # prodVars) => PushStepsLeft' < PushStepsLeft]_vars
    /\ [][(PopStepsLeft > 0 /\ consVars' # consVars) => PopStepsLeft' < PopStepsLeft]_vars
    /\ [](PushStepsLeft > 0 => ENABLED ProducerCall)
    /\ [](PopStepsLeft > 0 => ENABLED ConsumerCall)
    /\ (ppc = "push_load_r") ~> (ppc = "capture_ret")
    /\ (cpc = "pop_load_w") ~> (cpc = "render_finish")

\* a push of two samples has returned although a pop was in the middle of
\* its copy the whole time
C14_Witness ==
    /\ ppc = "capture_ret" /\ p_ok
    /\ Len(scratch) = 2
    /\ cpc = "pop_copy" /\ c_i = 1
    /\ c_w = p_w

====
